---- MODULE Spec2Model ----
(***************************************************************************)
(* Knot-vector and control-point synthesis of create_bspline               *)
(* (src/bspline.py).  The function is pure; the model draws its arguments  *)
(* in Init and runs the body in four steps: parameter normalisation        *)
(* (lines 23-28), shift correction (30-38), clamp extension (40-55) and    *)
(* tail extension with the hand-over to the evaluator (57-63).             *)
(*                                                                         *)
(* Arithmetic is exact.  Parameter values (x_values, dx_start, dx_end,     *)
(* knots) are carried as TWICE their value, so that the 0.5 factors of     *)
(* line 36 stay integral; the arguments x_in are in plain units.  Samples  *)
(* are integers (scalar samples) or tuples of integers (array samples).    *)
(* The code is Python 2: range() is a list and int(a/2) floors.            *)
(***************************************************************************)
EXTENDS Integers, Sequences, FiniteSets, TLC

VARIABLES k, y_values, x_given, x_in, clamped, fix_shift, shape,
          pc, err, x_values, dx_start, dx_end, left_shift, control_points, knots

vars == <<k, y_values, x_given, x_in, clamped, fix_shift, shape,
          pc, err, x_values, dx_start, dx_end, left_shift, control_points, knots>>

inputs == <<k, y_values, x_given, x_in, clamped, fix_shift, shape>>

\* ---------------------------------------------------------------- bounds
MaxK == 4
MaxN == 3
MaxX == 3
MaxY == 1

\* ---------------------------------------------------------------- helpers
Max(a, b) == IF a >= b THEN a ELSE b

\* range(0, n)
range(n) == [i \in 1..n |-> i - 1]

\* faulty variant: the stop value is left out, as np.arange(start, stop) would
linspace_open(start, stop, num) == [i \in 1..(num - 1) |-> start + (i - 1)]

\* np.linspace(start, stop, num) for num >= 0: num evenly spaced values from
\* start to stop (every use in the code has stop - start = num - 1 or num = 0)
linspace(start, stop, num) ==
    [i \in 1..num |-> IF num = 1 THEN start
                      ELSE start + ((i - 1) * (stop - start)) \div (num - 1)]

\* a_scalar + scale_vector * step, as a list
Extrapolate(base, scale_vector, step) ==
    [i \in DOMAIN scale_vector |-> base + scale_vector[i] * step]

\* samples: a - b, scalar or array
SampleSub(a, b, shp) ==
    IF shp = "vector" THEN [j \in DOMAIN a |-> a[j] - b[j]] ELSE a - b

\* faulty variant: the array branch drops the scale factor
my_outer_unscaled(scale_vector, point, shp) ==
    IF shp = "vector"
    THEN [i \in DOMAIN scale_vector |-> [j \in DOMAIN point |-> point[j]]]
    ELSE [i \in DOMAIN scale_vector |-> scale_vector[i] * point]

\* my_outer(scale_vector, point)
my_outer(scale_vector, point, shp) ==
    IF shp = "vector"
    THEN [i \in DOMAIN scale_vector |-> [j \in DOMAIN point |-> scale_vector[i] * point[j]]]
    ELSE [i \in DOMAIN scale_vector |-> scale_vector[i] * point]

\* list(sample + rows): numpy broadcast of one sample over the rows
SampleAddRows(sample, rows, shp) ==
    IF shp = "vector"
    THEN [i \in DOMAIN rows |-> [j \in DOMAIN sample |-> sample[j] + rows[i][j]]]
    ELSE [i \in DOMAIN rows |-> sample + rows[i]]

\* ---------------------------------------------------------------- 4.1 lines 23-28
\* `not x_values`: None and the empty list both select the default; x_given is
\* FALSE for both and TRUE for a non-empty list
UsesDefault(xg, x) == ~xg

Normalizer(y, xg, x) ==
    LET xs == IF UsesDefault(xg, x) THEN range(Len(y)) ELSE x
    IN  IF Len(xs) # Len(y) THEN [ok |-> FALSE, err |-> "AssertionError"]
        ELSE IF Len(xs) < 2 THEN [ok |-> FALSE, err |-> "IndexError"]
        ELSE [ok |-> TRUE, err |-> "none",
              x_values |-> [i \in 1..Len(xs) |-> 2 * xs[i]],
              dx_end   |-> 2 * (xs[Len(xs)] - xs[Len(xs) - 1]),
              dx_start |-> 2 * (xs[2] - xs[1])]

\* ---------------------------------------------------------------- 4.2 lines 30-38
\* faulty variant: the shift is one key too long
LeftShift_plus_one(kk, fix) == IF fix THEN 2 + Max(kk - 1, 0) \div 2 ELSE 0

\* faulty variant: the leading 1 + is forgotten
LeftShift_no_lead(kk, fix) == IF fix THEN Max(kk - 1, 0) \div 2 ELSE 0

LeftShift(kk, fix) == IF fix THEN 1 + Max(kk - 1, 0) \div 2 ELSE 0

\* faulty variant: the fake key is moved half a step forward instead of back
Midpoints_wrong_sign(xs, dxs) ==
    <<xs[1] + dxs \div 2>> \o [i \in 1..(Len(xs) - 1) |-> (xs[i] + xs[i + 1]) \div 2]

\* line 36: one fake key, then the average of each 2 adjacent keys
Midpoints(xs, dxs) ==
    <<xs[1] - dxs \div 2>> \o [i \in 1..(Len(xs) - 1) |-> (xs[i] + xs[i + 1]) \div 2]

ShiftCorrector(kk, xs, dxs, fix) ==
    IF fix
    THEN LET ls  == LeftShift(kk, fix)
             pre == Extrapolate(xs[1], linspace(-ls, -1, ls), dxs) \o xs
         IN  IF kk > 0 /\ kk % 2 = 0 THEN Midpoints(pre, dxs) ELSE pre
    ELSE xs

\* ---------------------------------------------------------------- 4.3 lines 40-55
Rep(kk) == Max(kk - 1, 0)

ClampParameters(kk, xs, dxs, dxe) ==
    Extrapolate(xs[1], linspace(-Rep(kk), -1, Rep(kk)), dxs) \o xs
        \o Extrapolate(xs[Len(xs)], linspace(1, Rep(kk), Rep(kk)), dxe)

\* faulty variant: the appended ghost samples reuse the steps -rep..-1 of the prepended ones
ClampSamples_same_steps(kk, y, shp) ==
    LET dy_start == SampleSub(y[2], y[1], shp)
        dy_end   == SampleSub(y[Len(y)], y[Len(y) - 1], shp)
    IN  SampleAddRows(y[1], my_outer(linspace(-Rep(kk), -1, Rep(kk)), dy_start, shp), shp)
            \o y
            \o SampleAddRows(y[Len(y)], my_outer(linspace(-Rep(kk), -1, Rep(kk)), dy_end, shp), shp)

ClampSamples(kk, y, shp) ==
    LET dy_start == SampleSub(y[2], y[1], shp)
        dy_end   == SampleSub(y[Len(y)], y[Len(y) - 1], shp)
    IN  SampleAddRows(y[1], my_outer(linspace(-Rep(kk), -1, Rep(kk)), dy_start, shp), shp)
            \o y
            \o SampleAddRows(y[Len(y)], my_outer(linspace(1, Rep(kk), Rep(kk)), dy_end, shp), shp)

\* faulty variant: the clamped flag is ignored
ClampExtender_always(kk, xs, y, dxs, dxe, cl, shp) ==
    [x_values |-> ClampParameters(kk, xs, dxs, dxe),
     control_points |-> ClampSamples(kk, y, shp)]

ClampExtender(kk, xs, y, dxs, dxe, cl, shp) ==
    IF cl THEN [x_values |-> ClampParameters(kk, xs, dxs, dxe),
                control_points |-> ClampSamples(kk, y, shp)]
    ELSE [x_values |-> xs, control_points |-> y]

\* ---------------------------------------------------------------- 4.4 lines 57-61
\* faulty variant: the + 1 is forgotten
TailCount_short(kk, ls) == kk - ls

TailCount(kk, ls) == kk - ls + 1

TailExtender(kk, xs, cp, ls, dxe) ==
    IF Len(xs) # Len(cp) + ls THEN [ok |-> FALSE, err |-> "AssertionError"]
    ELSE IF ~(kk >= 0) THEN [ok |-> FALSE, err |-> "AssertionError"]
    ELSE IF TailCount(kk, ls) < 0 THEN [ok |-> FALSE, err |-> "ValueError"]
    ELSE [ok |-> TRUE, err |-> "none",
          knots |-> xs \o Extrapolate(xs[Len(xs)],
                                      linspace(1, TailCount(kk, ls), TailCount(kk, ls)), dxe)]

\* ---------------------------------------------------------------- whole function
create_bspline(kk, y, xg, x, cl, fix, shp) ==
    LET nz == Normalizer(y, xg, x)
    IN  IF ~nz.ok THEN [ok |-> FALSE, err |-> nz.err]
        ELSE LET sh == ShiftCorrector(kk, nz.x_values, nz.dx_start, fix)
                 ce == ClampExtender(kk, sh, y, nz.dx_start, nz.dx_end, cl, shp)
                 te == TailExtender(kk, ce.x_values, ce.control_points,
                                    LeftShift(kk, fix), nz.dx_end)
             IN  IF ~te.ok THEN [ok |-> FALSE, err |-> te.err]
                 ELSE [ok |-> TRUE, err |-> "none", knots |-> te.knots,
                       control_points |-> ce.control_points]

\* ---------------------------------------------------------------- evaluator
\* The B-spline evaluator the Spline is handed to (BSpline of line 63): exact
\* rationals <<numerator, denominator>>, denominator > 0, and de Boor's recursion.
RECURSIVE GCD(_, _)
GCD(a, b) == IF b = 0 THEN a ELSE GCD(b, a % b)

Abs(a) == IF a < 0 THEN -a ELSE a

RNorm(n, d) == LET g == GCD(Abs(n), d) IN <<n \div g, d \div g>>

RAdd(p, q) == RNorm(p[1] * q[2] + q[1] * p[2], p[2] * q[2])

RMul(p, q) == RNorm(p[1] * q[1], p[2] * q[2])

\* d_j after r rounds on the span t[ell] <= x < t[ell+1] (0-based), degree kk
RECURSIVE DeBoor(_, _, _, _, _, _, _)
DeBoor(t, c, kk, ell, x, r, j) ==
    IF r = 0 THEN <<c[j + ell - kk + 1], 1>>
    ELSE LET lo == t[j + ell - kk + 1]
             hi == t[j + 1 + ell - r + 1]
         IN  RAdd(RMul(<<hi - x, hi - lo>>, DeBoor(t, c, kk, ell, x, r - 1, j - 1)),
                  RMul(<<x - lo, hi - lo>>, DeBoor(t, c, kk, ell, x, r - 1, j)))

\* the span used for x: inside the domain [t[kk], t[n]] the span holding x, outside
\* it the first or last span (extrapolation)
FindInterval(t, n, kk, x) ==
    IF x < t[kk + 1] THEN kk
    ELSE IF x >= t[n + 1] THEN n - 1
    ELSE CHOOSE l \in kk..(n - 1) : t[l + 1] <= x /\ x < t[l + 2]

\* spline(x) for scalar control points; nan outside the domain without extrapolation
BSplineEval(t, c, kk, extrapolate, x) ==
    LET n == Len(c)
    IN  IF ~extrapolate /\ (x < t[kk + 1] \/ x > t[n + 1])
        THEN [nan |-> TRUE, value |-> <<0, 1>>]
        ELSE [nan |-> FALSE,
              value |-> DeBoor(t, c, kk, FindInterval(t, n, kk, x), x, kk, kk)]

\* ---------------------------------------------------------------- inputs
SeqsOver(S, lo, hi) == UNION {[1..m -> S] : m \in lo..hi}

Ascending(x) == \A i \in 1..(Len(x) - 1) : x[i] < x[i + 1]

Lift(y) == [i \in DOMAIN y |-> <<y[i]>>]

ScalarSamples == SeqsOver(0..MaxY, 1, MaxN)

\* the non-empty parameter lists the caller may pass
AnyParameters == SeqsOver(0..MaxX, 1, MaxN)
AscendingParameters == {x \in AnyParameters : Ascending(x)}

\* a call with a parameter list from Parameters (or none) and flags from Flags
InitWith(Parameters, Flags) ==
    /\ k \in -1..MaxK
    /\ shape \in {"scalar", "vector"}
    /\ \E y \in ScalarSamples : y_values = IF shape = "vector" THEN Lift(y) ELSE y
    /\ x_given \in BOOLEAN
    /\ x_in \in IF x_given THEN Parameters ELSE {<<>>}
    /\ clamped \in Flags
    /\ fix_shift \in Flags
    /\ pc = "normalize"
    /\ err = "none"
    /\ x_values = <<>>
    /\ dx_start = 0
    /\ dx_end = 0
    /\ left_shift = 0
    /\ control_points = <<>>
    /\ knots = <<>>

Init == InitWith(AscendingParameters, BOOLEAN)

InitAnyOrder == InitWith(AnyParameters, BOOLEAN)

\* clamped and fix_shift left at their defaults (line 9)
InitDefaultFlags == InitWith(AscendingParameters, {TRUE})

\* ---------------------------------------------------------------- steps
Fail(e) ==
    /\ pc' = "error"
    /\ err' = e

Normalize ==
    /\ pc = "normalize"
    /\ LET nz == Normalizer(y_values, x_given, x_in)
       IN  IF nz.ok
           THEN /\ x_values' = nz.x_values
                /\ dx_start' = nz.dx_start
                /\ dx_end' = nz.dx_end
                /\ pc' = "shift"
                /\ err' = err
           ELSE /\ Fail(nz.err)
                /\ UNCHANGED <<x_values, dx_start, dx_end>>
    /\ UNCHANGED <<inputs, left_shift, control_points, knots>>

ShiftCorrect ==
    /\ pc = "shift"
    /\ x_values' = ShiftCorrector(k, x_values, dx_start, fix_shift)
    /\ left_shift' = LeftShift(k, fix_shift)
    /\ pc' = "clamp"
    /\ UNCHANGED <<inputs, err, dx_start, dx_end, control_points, knots>>

ClampExtend ==
    /\ pc = "clamp"
    /\ LET ce == ClampExtender(k, x_values, y_values, dx_start, dx_end, clamped, shape)
       IN  /\ x_values' = ce.x_values
           /\ control_points' = ce.control_points
    /\ pc' = "tail"
    /\ UNCHANGED <<inputs, err, dx_start, dx_end, left_shift, knots>>

TailExtend ==
    /\ pc = "tail"
    /\ LET te == TailExtender(k, x_values, control_points, left_shift, dx_end)
       IN  IF te.ok
           THEN /\ knots' = te.knots
                /\ pc' = "done"
                /\ err' = err
           ELSE /\ Fail(te.err)
                /\ knots' = knots
    /\ UNCHANGED <<inputs, x_values, dx_start, dx_end, left_shift, control_points>>

Next == Normalize \/ ShiftCorrect \/ ClampExtend \/ TailExtend

Spec == Init /\ [][Next]_vars

SpecAnyOrder == InitAnyOrder /\ [][Next]_vars

SpecDefaultFlags == InitDefaultFlags /\ [][Next]_vars

\* ================================================================ properties
n_samples == Len(y_values)

\* a valid call: k >= 0, n >= 2, parameters strictly ascending of length n or defaulted
ValidInput ==
    /\ k >= 0
    /\ n_samples >= 2
    /\ x_given => (Len(x_in) = n_samples /\ Ascending(x_in))

\* the original parameter sequence of a valid call, in plain units
OrigX == IF x_given THEN x_in ELSE range(n_samples)

Doubled(x) == [i \in DOMAIN x |-> 2 * x[i]]

Uniform(x) == \A i \in 1..(Len(x) - 1) : x[i + 1] - x[i] = x[2] - x[1]

Done == pc = "done"

\* C1: for every valid call and every flag combination the knot vector handed to
\* the evaluator has exactly len(control_points) + k + 1 elements.
C1_KnotCount ==
    (Done /\ ValidInput) => Len(knots) = Len(control_points) + k + 1

C1_Witness ==
    Done /\ ValidInput /\ clamped /\ fix_shift /\ k = 3 /\ n_samples = MaxN
         /\ Len(knots) = Len(control_points) + 4

\* C2 (as claimed): for k >= 1 and clamped=true, for either value of fix_shift and
\* uniform or non-uniform parameters, the curve evaluated at the first and the last
\* original parameter value equals the first and the last sample.
EvalAt(extrapolate, x) == BSplineEval(knots, control_points, k, extrapolate, 2 * x)

IsValue(res, v) == ~res.nan /\ res.value = <<v, 1>>

C2_ClampedInterpolation ==
    (Done /\ ValidInput /\ clamped /\ k >= 1 /\ shape = "scalar") =>
        \A extrapolate \in BOOLEAN :
            /\ IsValue(EvalAt(extrapolate, OrigX[1]), y_values[1])
            /\ IsValue(EvalAt(extrapolate, OrigX[n_samples]), y_values[n_samples])

\* C3: for every valid call and every flag combination the knot vector is
\* strictly ascending.
C3_KnotsAscending ==
    (Done /\ ValidInput) => Ascending(knots)

C3_Witness ==
    Done /\ ValidInput /\ fix_shift /\ clamped /\ k = 2 /\ x_given /\ ~Uniform(x_in)
         /\ Len(knots) > n_samples

\* the domain boundaries knots[k], knots[len-k-1] (0-based) enclose the original range
Encloses ==
    /\ knots[k + 1] <= 2 * OrigX[1]
    /\ 2 * OrigX[n_samples] <= knots[Len(knots) - k]

\* C4 (as claimed): for every valid call and every flag combination the domain
\* boundaries enclose the original parameter range.
C4_Original ==
    (Done /\ ValidInput) => Encloses

\* C4 (amended): the domain boundaries enclose the original parameter range exactly
\* when clamped and fix_shift are both true, or k = 0, or k = 1 with fix_shift.
C4_EnclosesWhenShiftedAndClamped ==
    (Done /\ ValidInput) =>
        (Encloses <=> ((clamped /\ fix_shift) \/ k = 0 \/ (k = 1 /\ fix_shift)))

C4_Witness ==
    Done /\ ValidInput /\ clamped /\ fix_shift /\ k = 3 /\ x_given /\ ~Uniform(x_in)
         /\ Encloses

\* C5 (as claimed): a parameter sequence of the wrong length, a parameter sequence
\* that is not strictly ascending and a negative degree each make the call fail; no
\* Spline is produced.
PreconditionViolated ==
    \/ k < 0
    \/ x_given /\ Len(x_in) # n_samples
    \/ x_given /\ ~Ascending(x_in)

C5_PreconditionsRejected ==
    PreconditionViolated => ~Done

\* C6: for k = 0, clamped=false, fix_shift=false the control points are the samples
\* and the knots are the parameters followed by the one knot x[n-1] + dx_end.
C6_DegreeZeroIdentity ==
    (Done /\ ValidInput /\ k = 0 /\ ~clamped /\ ~fix_shift) =>
        /\ control_points = y_values
        /\ knots = Doubled(OrigX)
                     \o <<2 * (OrigX[n_samples] + (OrigX[n_samples] - OrigX[n_samples - 1]))>>

C6_Witness ==
    Done /\ ValidInput /\ k = 0 /\ ~clamped /\ ~fix_shift /\ x_given /\ ~Uniform(x_in)

\* C7: with clamped=false the control points handed to the evaluator are exactly
\* the samples, for every k >= 0 and both values of fix_shift.
C7_UnclampedSamplesUnchanged ==
    (Done /\ ValidInput /\ ~clamped) => control_points = y_values

C7_Witness ==
    Done /\ ValidInput /\ ~clamped /\ fix_shift /\ k = 2 /\ control_points = y_values
         /\ y_values[1] # y_values[2]

\* C8: a scalar sample sequence and its lifted form (each sample v as the array [v])
\* give the same knots, and the lifted control points wrap the scalar ones.
C8_VectorBroadcast ==
    (Done /\ ValidInput /\ shape = "scalar") =>
        LET v == create_bspline(k, Lift(y_values), x_given, x_in, clamped, fix_shift, "vector")
        IN  /\ v.ok
            /\ v.knots = knots
            /\ v.control_points = Lift(control_points)

C8_Witness ==
    Done /\ ValidInput /\ shape = "scalar" /\ clamped /\ k >= 2
         /\ y_values[1] # y_values[2] /\ Len(control_points) > n_samples

\* sample + i * slope * num / den, stated without division
GhostIs(ghost, sample, i, slope, num, den) ==
    IF shape = "vector"
    THEN \A j \in DOMAIN sample : den * ghost[j] = den * sample[j] + i * num * slope[j]
    ELSE den * ghost = den * sample + i * num * slope

\* the control points are rep ghosts, the n samples, rep ghosts, the ghosts stepping
\* by num/den of the boundary slopes (nums, dens at the start, nume, dene at the end)
GhostLayout(nums, dens, nume, dene) ==
    LET rep == Max(k - 1, 0)
        dy_start == SampleSub(y_values[2], y_values[1], shape)
        dy_end == SampleSub(y_values[n_samples], y_values[n_samples - 1], shape)
    IN  /\ Len(control_points) = n_samples + 2 * rep
        /\ \A j \in 1..rep :
               GhostIs(control_points[j], y_values[1], j - rep - 1, dy_start, nums, dens)
        /\ \A j \in 1..n_samples : control_points[rep + j] = y_values[j]
        /\ \A j \in 1..rep :
               GhostIs(control_points[rep + n_samples + j], y_values[n_samples], j,
                       dy_end, nume, dene)

\* C9 (as claimed): the ghost samples are y[0] + i*(dy_start/dx_start) and
\* y[n-1] + i*(dy_end/dx_end), also when the boundary spacings differ from 1.
\* (dx_start and dx_end hold twice the spacing.)
C9_Original ==
    (Done /\ ValidInput /\ clamped) => GhostLayout(2, dx_start, 2, dx_end)

\* C9 (amended): the ghost samples are y[0] + i*dy_start and y[n-1] + i*dy_end,
\* whatever the boundary spacings.
C9_GhostSamples ==
    (Done /\ ValidInput /\ clamped) => GhostLayout(1, 1, 1, 1)

C9_Witness ==
    Done /\ ValidInput /\ clamped /\ k = 3 /\ dx_start # 2 /\ dx_end # 2
         /\ y_values[1] # y_values[2] /\ y_values[n_samples] # y_values[n_samples - 1]
         /\ GhostLayout(1, 1, 1, 1)

====
